---- MODULE Spec2Model ----
(***************************************************************************)
(* AutoResolve: the LangGraph workflow of src/agents (triage -> diagnostic *)
(* -> fix -> escalate/complete) driven by run_autoresolve_workflow and     *)
(* process_alert.                                                          *)
(*                                                                         *)
(* Text is modelled as a sequence of tokens; a token is either one         *)
(* non-ASCII code point, written "U+xxxx", or a run of ASCII characters.   *)
(* Python's `x in s` on strings is the contiguous-subsequence test         *)
(* Contains(x, s).  An Optional value is <<>> (None) or <<v>>.             *)
(*                                                                         *)
(* Fields that no stage reads and no routing depends on are left out of    *)
(* the records: confidence, affected_pods, recommended_action, timestamp   *)
(* and the Issue fields other than title and severity.                     *)
(***************************************************************************)
EXTENDS Integers, Sequences, FiniteSets, TLC

VARIABLES
    alert,              \* the alert of the webhook payload the run is for
    other_run,          \* the state of the run of another task, or <<>>
    issue,              \* state["issue"]
    triage_result,      \* state["triage_result"]      (Optional)
    diagnostic_result,  \* state["diagnostic_result"]  (Optional)
    fix_attempts,       \* state["fix_attempts"]       (reducer operator.add)
    current_attempt,    \* state["current_attempt"]
    max_attempts,       \* state["max_attempts"]
    status,             \* state["status"]
    resolution_summary, \* state["resolution_summary"] (Optional)
    next_agent,         \* state["next_agent"]
    messages,           \* state["messages"]           (reducer operator.add)
    pc,                 \* the graph node to run next, or how the run ended
    invocations,        \* how many times each node has been entered
    executor_calls      \* the executor operations (k8s_tools) that were invoked

vars == <<alert, other_run, issue, triage_result, diagnostic_result,
          fix_attempts, current_attempt, max_attempts, status,
          resolution_summary, next_agent, messages, pc, invocations,
          executor_calls>>

----------------------------------------------------------------------------
(* Bounds *)

\* Cap on the invocations of one node; it only limits runs that the code
\* itself would not end.
MaxInvocations == 4

\* Longest fix attempt sequence the escalation summary is computed for.
MaxSummaryAttempts == 3

----------------------------------------------------------------------------
(* Enumerations of agents/state.py and the inputs the stages are tried on *)

DETECTED   == "detected"
TRIAGING   == "triaging"
DIAGNOSING == "diagnosing"
FIXING     == "fixing"
RESOLVED   == "resolved"
ESCALATED  == "escalated"

ResolutionStatus == {DETECTED, TRIAGING, DIAGNOSING, FIXING, RESOLVED, ESCALATED}

\* fix_action: Literal["restart", "rollback", "scale", "escalate"]
DiagnosticFixActions == {"restart", "rollback", "scale", "escalate"}

Nodes == {"triage", "diagnostic", "fix", "escalate", "complete"}

\* Alert titles the runs are started with.
Titles == {"HighCPUUsage"}

\* Classifications the Reasoning Engine answers with (TriageOutput).
TriageOutputs ==
    [issue_type : {"high_cpu", "unknown"},
     severity   : {"critical", "warning"},
     reasoning  : {"cpu above threshold"}]

\* Judgments the Reasoning Engine answers with (DiagnosticOutput).
DiagnosticOutputs ==
    [root_cause      : {"memory leak"},
     is_auto_fixable : BOOLEAN,
     fix_action      : DiagnosticFixActions]

\* The glyph k8s_tools.py puts in front of a success / failure text.
CHECK_MARK == "U+2705"
CROSS_MARK == "U+274C"

\* The literal agents.py looks for in a tool result: three code points.
SUCCESS_MARKER == <<"U+00E2", "U+0153", "U+2026">>

\* str(e) / stderr of a failed cluster call: text supplied by the API server
\* or by kubectl, so any text at all.
ErrTexts ==
    {<<"403 Forbidden">>,
     <<"admission webhook denied: ", "U+00E2", "U+0153", "U+2026", " policy">>}

\* What a cluster call can do: complete, exit non-zero (kubectl), or raise.
ExecutorOutcomes ==
    {[kind |-> "ok", text |-> <<>>]}
        \cup [kind : {"nonzero", "raised"}, text : ErrTexts]

----------------------------------------------------------------------------
(* Helpers *)

\* Python: sub in s
Contains(sub, s) ==
    \E i \in 0..(Len(s) - Len(sub)) : SubSeq(s, i + 1, i + Len(sub)) = sub

\* Annotated[list, operator.add]: the channel's new value is old + update.
operator_add(old, update) == old \o update

\* A channel that keeps the first value written to it.
last_value_keep_first(old, update) == IF old # <<>> THEN old ELSE update

\* A key without a reducer (Optional[...], str, int): the update replaces
\* the channel's value.
last_value(old, update) == update

Bump(f, k) == [f EXCEPT ![k] = @ + 1]

----------------------------------------------------------------------------
(* agents/k8s_tools.py *)

restart_deployment(deployment_name, o) ==
    IF o.kind = "ok"
    THEN <<CHECK_MARK, " Successfully restarted deployment ", deployment_name>>
    ELSE <<CROSS_MARK, " Failed to restart: ">> \o o.text

rollback_deployment(deployment_name, o) ==
    IF o.kind = "ok"
    THEN <<CHECK_MARK, " Successfully rolled back ", deployment_name>>
    ELSE IF o.kind = "nonzero"
    THEN <<CROSS_MARK, " Rollback failed: ">> \o o.text
    ELSE <<CROSS_MARK, " Error: ">> \o o.text

\* scale_deployment without its range check.
scale_deployment_unchecked(deployment_name, replicas, o) ==
    IF o.kind = "ok"
    THEN <<CHECK_MARK, " Scaled ", deployment_name, " to ",
           ToString(replicas), " replicas">>
    ELSE <<CROSS_MARK, " Failed to scale: ">> \o o.text

scale_deployment(deployment_name, replicas, o) ==
    IF replicas < 1 \/ replicas > 10
    THEN <<CROSS_MARK, " Replicas must be between 1 and 10">>
    ELSE IF o.kind = "ok"
    THEN <<CHECK_MARK, " Scaled ", deployment_name, " to ",
           ToString(replicas), " replicas">>
    ELSE <<CROSS_MARK, " Failed to scale: ">> \o o.text

\* The outcomes each operation has: only rollback runs a subprocess.
OutcomesOf(action) ==
    IF action = "rollback" THEN ExecutorOutcomes
    ELSE IF action \in {"restart", "scale"}
    THEN {o \in ExecutorOutcomes : o.kind # "nonzero"}
    ELSE {[kind |-> "none", text |-> <<>>]}

----------------------------------------------------------------------------
(* agents/graph.py: routing *)

route_after_triage(triage) ==
    IF triage # <<>> /\ triage[1].severity = "critical"
    THEN "diagnostic"
    ELSE "diagnostic"

route_after_diagnostic(diagnostic) ==
    IF diagnostic # <<>> /\ diagnostic[1].is_auto_fixable
    THEN "fix"
    ELSE "escalate"

\* Variants of route_after_fix with one slip each.
route_after_fix_off_by_one(st, attempt, max) ==
    IF st = RESOLVED THEN "complete"
    ELSE IF attempt > max THEN "escalate"
    ELSE "diagnostic"

route_after_fix_attempts_first(st, attempt, max) ==
    IF attempt >= max THEN "escalate"
    ELSE IF st = RESOLVED THEN "complete"
    ELSE "diagnostic"

route_after_fix_ignores_status(st, attempt, max) ==
    IF attempt >= max THEN "escalate" ELSE "diagnostic"

route_after_fix_always_retry(st, attempt, max) ==
    IF st = RESOLVED THEN "complete" ELSE "diagnostic"

route_after_fix_retry_triage(st, attempt, max) ==
    IF st = RESOLVED THEN "complete"
    ELSE IF attempt >= max THEN "escalate"
    ELSE "triage"

route_after_fix(st, attempt, max) ==
    IF st = RESOLVED THEN "complete"
    ELSE IF attempt >= max THEN "escalate"
    ELSE "diagnostic"

----------------------------------------------------------------------------
(* agents/graph.py: create_initial_state *)

DefaultMaxAttempts == 3

\* The firing alert receive_alert and run_autoresolve_workflow made the
\* issue from.
AlertOf(i) ==
    [status |-> "firing", alertname |-> <<i.title>>,
     severity |-> <<i.severity>>]

Init ==
    /\ issue \in [title : Titles, severity : {"warning"}]
    /\ alert = AlertOf(issue)
    /\ other_run = <<>>
    /\ triage_result = <<>>
    /\ diagnostic_result = <<>>
    /\ fix_attempts = <<>>
    /\ current_attempt = 0
    /\ max_attempts = DefaultMaxAttempts
    /\ status = DETECTED
    /\ resolution_summary = <<>>
    /\ next_agent = "triage"
    /\ messages = <<>>
    /\ pc = "triage"
    /\ invocations = [n \in Nodes |-> 0]
    /\ executor_calls = <<>>

----------------------------------------------------------------------------
(* agents/agents.py: the stages.  Each action is one superstep of the      *)
(* graph: the node's update is merged into the state (a reducer key by     *)
(* operator_add, any other key by overwriting) and the node's edge picks   *)
(* the node to run next.                                                   *)

\* triage_agent: the Reasoning Engine answers with a valid TriageOutput,
\* one of outputs.
TriageAgent(outputs) ==
    /\ pc = "triage"
    /\ invocations["triage"] < MaxInvocations
    /\ \E response \in outputs :
        /\ triage_result' = last_value(triage_result,
               <<[issue_type |-> response.issue_type,
                  severity   |-> response.severity,
                  reasoning  |-> response.reasoning]>>)
        /\ messages' = operator_add(messages,
               <<[role    |-> "triage",
                  content |-> <<"Classified as ", response.issue_type, " (",
                                response.severity, "): ",
                                response.reasoning>>]>>)
    /\ status' = DIAGNOSING
    /\ next_agent' = "diagnostic"
    /\ pc' = route_after_triage(triage_result')
    /\ invocations' = Bump(invocations, "triage")
    /\ UNCHANGED <<alert, other_run, issue, diagnostic_result, fix_attempts,
                   current_attempt, max_attempts, resolution_summary,
                   executor_calls>>

triage_agent == TriageAgent(TriageOutputs)

\* triage_agent: structured_llm.ainvoke raises (engine unreachable, or the
\* answer fails TriageOutput validation); nothing in the graph catches it.
triage_agent_raises ==
    /\ pc = "triage"
    /\ invocations["triage"] < MaxInvocations
    /\ pc' = "raised"
    /\ invocations' = Bump(invocations, "triage")
    /\ UNCHANGED <<alert, other_run, issue, triage_result, diagnostic_result,
                   fix_attempts, current_attempt, max_attempts, status,
                   resolution_summary, next_agent, messages, executor_calls>>

\* diagnostic_agent: status of the update.
diagnostic_status(is_auto_fixable) ==
    IF is_auto_fixable THEN FIXING ELSE ESCALATED

\* diagnostic_agent: the Reasoning Engine answers with a valid
\* DiagnosticOutput.  get_pod_status / get_kubernetes_events return text
\* (an error text on failure) that only goes into the prompt.
DiagnosticAgent(outputs) ==
    /\ pc = "diagnostic"
    /\ invocations["diagnostic"] < MaxInvocations
    /\ \E response \in outputs :
        /\ diagnostic_result' = last_value(diagnostic_result,
               <<[root_cause      |-> response.root_cause,
                  is_auto_fixable |-> response.is_auto_fixable,
                  fix_action      |-> response.fix_action]>>)
        /\ status' = diagnostic_status(response.is_auto_fixable)
        /\ next_agent' = IF response.is_auto_fixable THEN "fix" ELSE "escalate"
        /\ messages' = operator_add(messages,
               <<[role    |-> "diagnostic",
                  content |-> <<"Root cause: ", response.root_cause,
                                ". Action: ", response.fix_action>>]>>)
    /\ pc' = route_after_diagnostic(diagnostic_result')
    /\ invocations' = Bump(invocations, "diagnostic")
    /\ UNCHANGED <<alert, other_run, issue, triage_result, fix_attempts,
                   current_attempt, max_attempts, resolution_summary,
                   executor_calls>>

diagnostic_agent == DiagnosticAgent(DiagnosticOutputs)

diagnostic_agent_raises ==
    /\ pc = "diagnostic"
    /\ invocations["diagnostic"] < MaxInvocations
    /\ pc' = "raised"
    /\ invocations' = Bump(invocations, "diagnostic")
    /\ UNCHANGED <<alert, other_run, issue, triage_result, diagnostic_result,
                   fix_attempts, current_attempt, max_attempts, status,
                   resolution_summary, next_agent, messages, executor_calls>>

\* A fix_actions dictionary that also has an entry for "escalate".
fix_actions_with_escalate == {"restart", "rollback", "scale", "escalate"}

\* fix_agent: the keys of the fix_actions dictionary.
fix_actions == {"restart", "rollback", "scale"}

\* fix_agent: the replica count of the "scale" entry of fix_actions.
SCALE_REPLICAS == 3

\* fix_agent: fix_actions[action]() with the cluster answering o; replicas is
\* the count the "scale" entry asks for.
Dispatch(action, replicas, o) ==
    IF action = "restart" THEN restart_deployment("demo-app", o)
    ELSE IF action = "rollback" THEN rollback_deployment("demo-app", o)
    ELSE scale_deployment("demo-app", replicas, o)

\* The entry executor_calls gets for one invocation of an executor
\* operation: sent tells whether the operation issued its cluster call
\* (scale_deployment returns before it when replicas is out of range), ok
\* whether that call completed.
ExecutorCall(attempt, action, replicas, o) ==
    LET sent == ~(action = "scale" /\ (replicas < 1 \/ replicas > 10))
    IN  [attempt  |-> attempt,
         op       |-> action,
         replicas |-> IF action = "scale" THEN replicas ELSE 0,
         sent     |-> sent,
         ok       |-> sent /\ o.kind = "ok",
         text     |-> IF sent THEN o.text ELSE <<>>]

\* fix_agent: the attempt number of this invocation.
NextAttempt(attempt) == attempt + 1

\* fix_agent: success = "<marker>" in result
ResultSuccess(result) == Contains(SUCCESS_MARKER, result)

\* A next_agent that allows one retry more than the routing does.
fix_next_agent_off_by_one(attempt, max) ==
    IF attempt <= max THEN "diagnostic" ELSE "escalate"

\* fix_agent: next_agent of a failed attempt.
fix_next_agent(attempt, max) ==
    IF attempt < max THEN "diagnostic" ELSE "escalate"

\* fix_agent, with the replica count of its "scale" entry as a parameter.
FixAgent(replicas) ==
    /\ pc = "fix"
    /\ invocations["fix"] < MaxInvocations
    /\ \E o \in OutcomesOf(diagnostic_result[1].fix_action) :
        LET action  == diagnostic_result[1].fix_action
            attempt == NextAttempt(current_attempt)
            known   == action \in fix_actions
            result  == IF known THEN Dispatch(action, replicas, o)
                                ELSE <<"Unknown action">>
            success == IF known THEN ResultSuccess(result) ELSE FALSE
            fix_attempt == [attempt_number |-> attempt,
                            action         |-> action,
                            success        |-> success,
                            details        |-> result]
        IN  /\ fix_attempts' = operator_add(fix_attempts, <<fix_attempt>>)
            /\ current_attempt' = attempt
            /\ executor_calls' =
                   IF known
                   THEN Append(executor_calls,
                               ExecutorCall(attempt, action, replicas, o))
                   ELSE executor_calls
            /\ IF success
               THEN /\ status' = RESOLVED
                    /\ resolution_summary' = <<(<<"Auto-fixed via ", action>>)>>
                    /\ next_agent' = "complete"
                    /\ messages' = operator_add(messages,
                           <<[role    |-> "fix",
                              content |-> SUCCESS_MARKER
                                          \o <<" Fix successful: ">>
                                          \o result]>>)
               ELSE /\ next_agent' = fix_next_agent(attempt, max_attempts)
                    /\ messages' = operator_add(messages,
                           <<[role    |-> "fix",
                              content |-> <<"U+00E2", "U+0152",
                                            " Fix failed: ">> \o result]>>)
                    /\ UNCHANGED <<status, resolution_summary>>
    /\ pc' = route_after_fix(status', current_attempt', max_attempts)
    /\ invocations' = Bump(invocations, "fix")
    /\ UNCHANGED <<alert, other_run, issue, triage_result, diagnostic_result,
                   max_attempts>>

fix_agent == FixAgent(SCALE_REPLICAS)

\* escalation_agent: the line of one fix attempt in the summary.
AttemptLine(f) ==
    <<"  - Attempt ", ToString(f.attempt_number), ": ", f.action, " - ",
      IF f.success THEN "Success" ELSE "Failed">>

\* The lines of the fix attempts, latest first.
RECURSIVE AttemptLines_latest_first(_)
AttemptLines_latest_first(fs) ==
    IF fs = <<>> THEN <<>>
    ELSE IF Len(fs) = 1 THEN AttemptLine(fs[1])
    ELSE AttemptLines_latest_first(Tail(fs)) \o <<"\n">> \o AttemptLine(fs[1])

\* escalation_agent: chr(10).join(...) over the fix attempts.
RECURSIVE AttemptLines(_)
AttemptLines(fs) ==
    IF fs = <<>> THEN <<>>
    ELSE IF Len(fs) = 1 THEN AttemptLine(fs[1])
    ELSE AttemptLine(fs[1]) \o <<"\n">> \o AttemptLines(Tail(fs))

\* escalation_agent: the summary text it prints and logs as a message.
EscalationSummary(iss, triage, diagnostic, fs) ==
    <<"\n", "U+00F0", "U+0178", "U+0161", "U+00A8",
      " ESCALATION REQUIRED\n\nIssue: ", iss.title,
      "\nSeverity: ", IF triage # <<>> THEN triage[1].severity ELSE "Unknown",
      "\nType: ", IF triage # <<>> THEN triage[1].issue_type ELSE "Unknown",
      "\n\nRoot Cause: ",
      IF diagnostic # <<>> THEN diagnostic[1].root_cause
                           ELSE "Unable to determine",
      "\n\nFix Attempts: ", ToString(Len(fs)), "\n">>
    \o AttemptLines(fs)
    \o <<"\n\nRecommended Next Steps:\n1. Check application logs for errors\n2. Review recent deployments\n3. Check resource utilization in Grafana\n    ">>

\* The compiled summary of the current state.
CompiledSummary ==
    EscalationSummary(issue, triage_result, diagnostic_result, fix_attempts)

\* escalation_agent: the resolution_summary of its update.
escalation_resolution_summary == <<"Escalated to human operator">>

escalation_agent ==
    /\ pc = "escalate"
    /\ invocations["escalate"] < MaxInvocations
    /\ status' = ESCALATED
    /\ resolution_summary' = <<escalation_resolution_summary>>
    /\ next_agent' = "complete"
    /\ messages' = operator_add(messages,
           <<[role    |-> "escalation",
              content |-> EscalationSummary(issue, triage_result,
                                            diagnostic_result, fix_attempts)]>>)
    /\ pc' = "complete"
    /\ invocations' = Bump(invocations, "escalate")
    /\ UNCHANGED <<alert, other_run, issue, triage_result, diagnostic_result,
                   fix_attempts, current_attempt, max_attempts,
                   executor_calls>>

\* The "complete" node, lambda state: state.  What a node returns is an
\* update: the node returns every key of the state, so each plain key is
\* overwritten with its own value and each reducer key (fix_attempts,
\* messages) becomes operator.add(value, value).  Its edge leads to END.
complete ==
    /\ pc = "complete"
    /\ invocations["complete"] < MaxInvocations
    /\ fix_attempts' = operator_add(fix_attempts, fix_attempts)
    /\ messages' = operator_add(messages, messages)
    /\ pc' = "END"
    /\ invocations' = Bump(invocations, "complete")
    /\ UNCHANGED <<alert, other_run, issue, triage_result, diagnostic_result,
                   current_attempt, max_attempts, status, resolution_summary,
                   next_agent, executor_calls>>

----------------------------------------------------------------------------
(* The callers of the graph *)

\* run_autoresolve_workflow: workflow.ainvoke returned; final_state is the
\* state at END and is returned to process_alert, which logs its status.
run_autoresolve_workflow_returns ==
    /\ pc = "END"
    /\ pc' = "returned"
    /\ UNCHANGED <<alert, other_run, issue, triage_result, diagnostic_result,
                   fix_attempts, current_attempt, max_attempts, status,
                   resolution_summary, next_agent, messages, invocations,
                   executor_calls>>

\* process_alert: a stage raised; the exception passes through ainvoke and
\* run_autoresolve_workflow, and `except Exception` logs "Workflow failed".
\* No final state is returned.
process_alert_except ==
    /\ pc = "raised"
    /\ pc' = "failed"
    /\ UNCHANGED <<alert, other_run, issue, triage_result, diagnostic_result,
                   fix_attempts, current_attempt, max_attempts, status,
                   resolution_summary, next_agent, messages, invocations,
                   executor_calls>>

Next ==
    \/ triage_agent
    \/ triage_agent_raises
    \/ diagnostic_agent
    \/ diagnostic_agent_raises
    \/ fix_agent
    \/ escalation_agent
    \/ complete
    \/ run_autoresolve_workflow_returns
    \/ process_alert_except

Spec == Init /\ [][Next]_vars

\* The event loop runs a started task until it returns or raises.
LiveSpec == Spec /\ WF_vars(Next)

----------------------------------------------------------------------------
(* escalation_agent as a function of the state it is given *)

\* Fix attempt sequences of length n, numbered from 1.
FixAttemptsOfLen(n) ==
    [1..n -> [action : {"restart", "escalate"}, success : BOOLEAN]]

SummaryFixAttempts ==
    UNION {{[i \in 1..n |-> [attempt_number |-> i,
                             action         |-> f[i].action,
                             success        |-> f[i].success,
                             details        |-> <<"Unknown action">>]]
               : f \in FixAttemptsOfLen(n)} : n \in 0..MaxSummaryAttempts}

\* Any state escalation_agent accepts: both judgments are read with
\* state.get and may be None.
SummaryInit ==
    /\ issue \in [title : Titles, severity : {"warning"}]
    /\ alert = AlertOf(issue)
    /\ other_run = <<>>
    /\ triage_result \in {<<>>} \cup {<<t>> : t \in TriageOutputs}
    /\ diagnostic_result \in {<<>>} \cup {<<d>> : d \in DiagnosticOutputs}
    /\ fix_attempts \in SummaryFixAttempts
    /\ current_attempt = Len(fix_attempts)
    /\ max_attempts = DefaultMaxAttempts
    /\ status = FIXING
    /\ resolution_summary = <<>>
    /\ next_agent = "escalate"
    /\ messages = <<>>
    /\ pc = "escalate"
    /\ invocations = [n \in Nodes |-> 0]
    /\ executor_calls = <<>>

\* escalation_agent is called once more on the state it left.
escalation_agent_again ==
    /\ pc = "complete"
    /\ invocations["escalate"] = 1
    /\ pc' = "escalate"
    /\ UNCHANGED <<alert, other_run, issue, triage_result, diagnostic_result,
                   fix_attempts, current_attempt, max_attempts, status,
                   resolution_summary, next_agent, messages, invocations,
                   executor_calls>>

SummaryNext ==
    \/ escalation_agent
    \/ escalation_agent_again

SummarySpec == SummaryInit /\ [][SummaryNext]_vars

----------------------------------------------------------------------------
(* fix_agent with the replica count of its "scale" entry left open *)

ReplicaInputs == {0, 3, 10, 11, 15}

fix_agent_any_replicas == \E r \in ReplicaInputs : FixAgent(r)

ScaleNext ==
    \/ triage_agent
    \/ triage_agent_raises
    \/ diagnostic_agent
    \/ diagnostic_agent_raises
    \/ fix_agent_any_replicas
    \/ escalation_agent
    \/ complete
    \/ run_autoresolve_workflow_returns
    \/ process_alert_except

ScaleSpec == Init /\ [][ScaleNext]_vars

----------------------------------------------------------------------------
(* The graph started on states with other attempt bounds *)

\* Values of state["max_attempts"] the graph is started with.
MaxAttemptsInputs == {1, 2, 3}

RoutingInit ==
    /\ issue \in [title : Titles, severity : {"warning"}]
    /\ alert = AlertOf(issue)
    /\ other_run = <<>>
    /\ triage_result = <<>>
    /\ diagnostic_result = <<>>
    /\ fix_attempts = <<>>
    /\ current_attempt = 0
    /\ max_attempts \in MaxAttemptsInputs
    /\ status = DETECTED
    /\ resolution_summary = <<>>
    /\ next_agent = "triage"
    /\ messages = <<>>
    /\ pc = "triage"
    /\ invocations = [n \in Nodes |-> 0]
    /\ executor_calls = <<>>

RoutingSpec == RoutingInit /\ [][Next]_vars

----------------------------------------------------------------------------
(* The task of a run is cancelled *)

\* The task running process_alert is cancelled while the run is in flight
\* (event loop shutdown): asyncio raises CancelledError at the pending
\* await.  Where CancelledError is a BaseException, `except Exception` in
\* process_alert does not catch it and the task ends cancelled; where it is
\* an Exception, it is logged like any stage error.  No stage, node or
\* caller handles cancellation.
cancel_run ==
    /\ pc \in Nodes
    /\ pc' \in {"cancelled", "raised"}
    /\ UNCHANGED <<alert, other_run, issue, triage_result, diagnostic_result,
                   fix_attempts, current_attempt, max_attempts, status,
                   resolution_summary, next_agent, messages, invocations,
                   executor_calls>>

CancelNext ==
    \/ triage_agent
    \/ triage_agent_raises
    \/ diagnostic_agent
    \/ diagnostic_agent_raises
    \/ fix_agent
    \/ escalation_agent
    \/ complete
    \/ run_autoresolve_workflow_returns
    \/ process_alert_except
    \/ cancel_run

CancelSpec == Init /\ [][CancelNext]_vars

----------------------------------------------------------------------------
(* api/main.py: the webhook, from one alert of a payload to its run *)

\* Alert.status of the alerts tried.
AlertStatuses == {"firing", "resolved"}

\* labels["alertname"] of the alerts tried.
AlertNames == {"Watchdog", "InfoInhibitor", "HighCPUUsage"}

\* labels["severity"] of the alerts tried; "page" is not a Severity.
AlertSeverities == {"warning", "critical", "page"}

\* The alerts of a payload; a label may be missing (<<>>).
Alerts ==
    [status    : AlertStatuses,
     alertname : {<<>>} \cup {<<n>> : n \in AlertNames},
     severity  : {<<>>} \cup {<<v>> : v \in AlertSeverities}]

\* dict.get(key, default)
Get(label, default) == IF label = <<>> THEN default ELSE label[1]

\* A suppression list without its second name.
SuppressedAlerts_watchdog_only == {"Watchdog"}

\* process_alert: the alert names it returns on.
SuppressedAlerts == {"Watchdog", "InfoInhibitor"}

\* class Severity(str, Enum)
Severity == {"critical", "warning", "info", "none"}

\* Value of status and next_agent while no state has been created.
NO_RUN == "no run"

\* An alert of a payload has arrived and nothing has been done with it.
AlertInit ==
    /\ alert \in Alerts
    /\ other_run = <<>>
    /\ issue = <<>>
    /\ triage_result = <<>>
    /\ diagnostic_result = <<>>
    /\ fix_attempts = <<>>
    /\ current_attempt = 0
    /\ max_attempts = 0
    /\ status = NO_RUN
    /\ resolution_summary = <<>>
    /\ next_agent = NO_RUN
    /\ messages = <<>>
    /\ pc = "receive_alert"
    /\ invocations = [n \in Nodes |-> 0]
    /\ executor_calls = <<>>

\* receive_alert: a firing alert is handed to process_alert as a background
\* task; any other alert is only logged.
receive_alert ==
    /\ pc = "receive_alert"
    /\ pc' = IF alert.status = "firing" THEN "process_alert" ELSE "logged"
    /\ UNCHANGED <<alert, other_run, issue, triage_result, diagnostic_result,
                   fix_attempts, current_attempt, max_attempts, status,
                   resolution_summary, next_agent, messages, invocations,
                   executor_calls>>

\* process_alert: returns on a suppressed name, otherwise awaits
\* run_autoresolve_workflow.  labels.get("alertname") of an alert without
\* the label is None, which is not in the list.
process_alert ==
    /\ pc = "process_alert"
    /\ pc' = IF /\ alert.alertname # <<>>
                /\ alert.alertname[1] \in SuppressedAlerts
             THEN "suppressed"
             ELSE "run_autoresolve_workflow"
    /\ UNCHANGED <<alert, other_run, issue, triage_result, diagnostic_result,
                   fix_attempts, current_attempt, max_attempts, status,
                   resolution_summary, next_agent, messages, invocations,
                   executor_calls>>

\* run_autoresolve_workflow up to workflow.ainvoke: Severity(...) raises
\* ValueError on a value that is not a member; otherwise the Issue is built
\* from alert_data and create_initial_state gives the state the graph
\* starts on.
run_autoresolve_workflow ==
    /\ pc = "run_autoresolve_workflow"
    /\ LET title    == Get(alert.alertname, "Unknown")
           severity == Get(alert.severity, "warning")
       IN  IF severity \in Severity
           THEN /\ issue' = [title |-> title, severity |-> severity]
                /\ max_attempts' = DefaultMaxAttempts
                /\ status' = DETECTED
                /\ next_agent' = "triage"
                /\ pc' = "triage"
           ELSE /\ pc' = "raised"
                /\ UNCHANGED <<issue, max_attempts, status, next_agent>>
    /\ UNCHANGED <<alert, other_run, triage_result, diagnostic_result,
                   fix_attempts, current_attempt, resolution_summary,
                   messages, invocations, executor_calls>>

AlertNext ==
    \/ receive_alert
    \/ process_alert
    \/ run_autoresolve_workflow
    \/ triage_agent
    \/ triage_agent_raises
    \/ diagnostic_agent
    \/ diagnostic_agent_raises
    \/ fix_agent
    \/ escalation_agent
    \/ complete
    \/ run_autoresolve_workflow_returns
    \/ process_alert_except

AlertSpec == AlertInit /\ [][AlertNext]_vars

----------------------------------------------------------------------------
(* Two background tasks, each awaiting its own run_autoresolve_workflow *)

\* The state of the run of the task that is executing: the alert_data it was
\* called with, the channels of its ainvoke, and where it is.
run_state ==
    [alert              |-> alert,
     issue              |-> issue,
     triage_result      |-> triage_result,
     diagnostic_result  |-> diagnostic_result,
     fix_attempts       |-> fix_attempts,
     current_attempt    |-> current_attempt,
     max_attempts       |-> max_attempts,
     status             |-> status,
     resolution_summary |-> resolution_summary,
     next_agent         |-> next_agent,
     messages           |-> messages,
     pc                 |-> pc,
     invocations        |-> invocations,
     executor_calls     |-> executor_calls]

\* create_initial_state for the issue i of a firing alert, before the first
\* node has run.
InitialRun(i) ==
    [alert              |-> AlertOf(i),
     issue              |-> i,
     triage_result      |-> <<>>,
     diagnostic_result  |-> <<>>,
     fix_attempts       |-> <<>>,
     current_attempt    |-> 0,
     max_attempts       |-> DefaultMaxAttempts,
     status             |-> DETECTED,
     resolution_summary |-> <<>>,
     next_agent         |-> "triage",
     messages           |-> <<>>,
     pc                 |-> "triage",
     invocations        |-> [n \in Nodes |-> 0],
     executor_calls     |-> <<>>]

\* The issue of the second task.
OtherIssues == [title : {"HighMemoryUsage"}, severity : {"critical"}]

\* The answers of the Reasoning Engine the two runs are tried on.
TwoRunsTriageOutputs ==
    [issue_type : {"high_cpu"},
     severity   : {"critical"},
     reasoning  : {"cpu above threshold"}]

TwoRunsDiagnosticOutputs ==
    [root_cause      : {"memory leak"},
     is_auto_fixable : BOOLEAN,
     fix_action      : {"restart"}]

\* Two process_alert tasks have each created their initial state; one is
\* executing, the other is suspended.
TwoRunsInit ==
    /\ issue \in [title : Titles, severity : {"warning"}]
    /\ alert = AlertOf(issue)
    /\ other_run \in {InitialRun(i) : i \in OtherIssues}
    /\ triage_result = <<>>
    /\ diagnostic_result = <<>>
    /\ fix_attempts = <<>>
    /\ current_attempt = 0
    /\ max_attempts = DefaultMaxAttempts
    /\ status = DETECTED
    /\ resolution_summary = <<>>
    /\ next_agent = "triage"
    /\ messages = <<>>
    /\ pc = "triage"
    /\ invocations = [n \in Nodes |-> 0]
    /\ executor_calls = <<>>

\* A task that continues on the state the task before it left, as it would
\* with the state kept in a module-level variable.
resumed_shared(own, last) == last

\* The state a task continues on when the event loop resumes it: the
\* initial_state local to its run_autoresolve_workflow call, as its own
\* ainvoke has updated it (the graph is compiled without a checkpointer).
resumed(own, last) == own

\* The event loop suspends the executing task at an await and resumes the
\* other one.
task_switch ==
    /\ other_run # <<>>
    /\ LET r == resumed(other_run, run_state)
       IN
           /\ alert' = r.alert
           /\ issue' = r.issue
           /\ triage_result' = r.triage_result
           /\ diagnostic_result' = r.diagnostic_result
           /\ fix_attempts' = r.fix_attempts
           /\ current_attempt' = r.current_attempt
           /\ max_attempts' = r.max_attempts
           /\ status' = r.status
           /\ resolution_summary' = r.resolution_summary
           /\ next_agent' = r.next_agent
           /\ messages' = r.messages
           /\ pc' = r.pc
           /\ invocations' = r.invocations
           /\ executor_calls' = r.executor_calls
    /\ other_run' = run_state

triage_agent_of_task == TriageAgent(TwoRunsTriageOutputs)

diagnostic_agent_of_task == DiagnosticAgent(TwoRunsDiagnosticOutputs)

TwoRunsNext ==
    \/ triage_agent_of_task
    \/ triage_agent_raises
    \/ diagnostic_agent_of_task
    \/ diagnostic_agent_raises
    \/ fix_agent
    \/ escalation_agent
    \/ complete
    \/ run_autoresolve_workflow_returns
    \/ process_alert_except
    \/ task_switch

TwoRunsSpec == TwoRunsInit /\ [][TwoRunsNext]_vars

TypeOK ==
    /\ status \in ResolutionStatus
    /\ current_attempt \in 0..MaxInvocations
    /\ max_attempts = DefaultMaxAttempts
    /\ pc \in Nodes \cup {"END", "raised", "returned", "failed"}
    /\ next_agent \in Nodes
    /\ Len(triage_result) <= 1
    /\ Len(diagnostic_result) <= 1
    /\ Len(resolution_summary) <= 1

----------------------------------------------------------------------------
(* Properties *)

Terminal == {RESOLVED, ESCALATED}

\* The partial order detected < {triaging, diagnosing, fixing}
\*                             < {resolved, escalated}.
Level(st) ==
    IF st = DETECTED THEN 0
    ELSE IF st \in Terminal THEN 2
    ELSE 1

LastFixAttempt == fix_attempts[Len(fix_attempts)]

\* C1: current_attempt never exceeds max_attempts, and the fix stage is only
\* entered with current_attempt < max_attempts.
AttemptsBounded ==
    /\ current_attempt <= max_attempts
    /\ pc = "fix" => current_attempt < max_attempts

\* C1 witness: the attempt counter has reached the bound after a failed fix.
AttemptsBoundedWitness ==
    /\ current_attempt = max_attempts
    /\ invocations["fix"] = max_attempts
    /\ pc = "escalate"

\* C2 (as claimed): current_attempt equals the length of fix_attempts in
\* every reachable state.
AttemptEqualsLength == current_attempt = Len(fix_attempts)

\* C3: no step moves status to a lower level of the partial order, and no
\* step changes a status that is resolved or escalated.
StatusMonotonic ==
    [][/\ Level(status') >= Level(status)
       /\ status \in Terminal => status' = status]_vars

\* C3 witness: the escalation stage and the complete node have run on a
\* state the diagnosis had already marked escalated.
StatusMonotonicWitness ==
    /\ pc = "returned"
    /\ status = ESCALATED
    /\ invocations["escalate"] = 1
    /\ ~diagnostic_result[1].is_auto_fixable

\* C4: a failed fix is followed by escalate exactly when current_attempt has
\* reached max_attempts and by diagnostic exactly when it is below; a
\* successful fix is followed by complete.
FixRouting ==
    [][pc = "fix" /\ pc' # "fix" =>
        /\ Len(fix_attempts') = Len(fix_attempts) + 1
        /\ LET f == fix_attempts'[Len(fix_attempts')]
           IN  /\ f.success => pc' = "complete"
               /\ ~f.success =>
                    /\ pc' = "escalate" <=> current_attempt' = max_attempts'
                    /\ pc' = "diagnostic" <=> current_attempt' < max_attempts'
                    /\ pc' \in {"escalate", "diagnostic"}]_vars

\* C4 witness: a fix has just failed on the last allowed attempt.
FixRoutingWitness ==
    /\ pc = "escalate"
    /\ fix_attempts # <<>>
    /\ ~LastFixAttempt.success
    /\ current_attempt = max_attempts

\* C5: unless a stage's external call raises, the run reaches the end of the
\* graph and returns with status resolved or escalated; the fix stage and
\* the diagnosis stage are each invoked at most max_attempts times.
RunTerminates ==
    /\ [](/\ invocations["fix"] <= max_attempts
          /\ invocations["diagnostic"] <= max_attempts)
    /\ <>(\/ pc = "failed"
          \/ /\ pc = "returned"
             /\ invocations["complete"] = 1
             /\ status \in Terminal)

\* C5 witness: a run that used every attempt has returned.
RunTerminatesWitness ==
    /\ pc = "returned"
    /\ invocations["fix"] = max_attempts
    /\ invocations["diagnostic"] = max_attempts
    /\ status = ESCALATED

\* C6 (as claimed): a run that has ended, normally or through a stage
\* error, has status resolved or escalated and a non-empty summary.
EndsWithStatusAndSummary ==
    pc \in {"returned", "failed"} =>
        /\ status \in Terminal
        /\ resolution_summary # <<>>
        /\ resolution_summary[1] # <<>>

\* C7 (as claimed): once the executor has succeeded on attempt n, the run
\* goes to complete with status resolved, no further diagnosis, fix or
\* escalation runs, and the run returns with n fix attempts.
ExecutorSuccessResolves ==
    \A i \in 1..Len(executor_calls) :
        executor_calls[i].ok =>
            LET n == executor_calls[i].attempt
            IN  /\ pc \in {"complete", "END", "returned"}
                /\ status = RESOLVED
                /\ invocations["fix"] = n
                /\ invocations["diagnostic"] = n
                /\ invocations["escalate"] = 0
                /\ pc = "returned" => Len(fix_attempts) = n

\* C8 (as claimed): the success flag of every recorded fix attempt is true
\* exactly when the executor operation of that attempt succeeded.
SuccessIsExecutorOutcome ==
    \A i \in 1..Len(fix_attempts) :
        fix_attempts[i].success <=>
            \E j \in 1..Len(executor_calls) :
                /\ executor_calls[j].attempt = fix_attempts[i].attempt_number
                /\ executor_calls[j].ok

\* C9 (as claimed): a run in which every diagnosis was fixable and every fix
\* attempt failed returns after exactly max_attempts (3) diagnoses and 3
\* fixes, escalated, with 3 fix attempts recorded.
AllFixesFailed ==
    /\ diagnostic_result # <<>>
    /\ diagnostic_result[1].is_auto_fixable
    /\ \A i \in 1..Len(fix_attempts) : ~fix_attempts[i].success

ScenarioC ==
    pc = "returned" /\ AllFixesFailed =>
        /\ max_attempts = 3
        /\ invocations["diagnostic"] = 3
        /\ invocations["fix"] = 3
        /\ invocations["escalate"] = 1
        /\ status = ESCALATED
        /\ Len(fix_attempts) = 3

\* C10 (as claimed): once the latest diagnosis is not fixable, the run goes
\* from diagnosis straight to escalation, the fix stage does not run and
\* fix_attempts stays as it was before that diagnosis, and the run returns
\* escalated.
NotFixable ==
    /\ diagnostic_result # <<>>
    /\ ~diagnostic_result[1].is_auto_fixable

NotFixableEscalates ==
    /\ [][NotFixable' =>
            /\ fix_attempts' = fix_attempts
            /\ invocations'["fix"] = invocations["fix"]
            /\ pc = "diagnostic" => pc' = "escalate"]_vars
    /\ [](NotFixable /\ pc = "returned" => status = ESCALATED)

\* C11 (as claimed): when a Reasoning Engine call has failed in triage or
\* diagnosis, the run is escalated with a non-empty summary, no fix attempt
\* beyond those already counted is recorded, and the caller of the run does
\* not get an exception.
EngineFailureEscalates ==
    pc \in {"raised", "failed"} =>
        /\ status = ESCALATED
        /\ resolution_summary # <<>>
        /\ resolution_summary[1] # <<>>
        /\ Len(fix_attempts) = current_attempt
        /\ invocations["diagnostic"] = 0 => fix_attempts = <<>>
        /\ pc # "failed"

UnknownAction ==
    /\ pc = "fix"
    /\ diagnostic_result[1].is_auto_fixable
    /\ diagnostic_result[1].fix_action \notin {"restart", "rollback", "scale"}

\* The fix attempt an unknown action is recorded as, with the given detail.
UnknownActionRecorded(detail) ==
    /\ executor_calls' = executor_calls
    /\ current_attempt' = current_attempt + 1
    /\ fix_attempts' = Append(fix_attempts,
           [attempt_number |-> current_attempt + 1,
            action         |-> diagnostic_result[1].fix_action,
            success        |-> FALSE,
            details        |-> detail])
    /\ pc' \in {"diagnostic", "escalate"}

\* C12 (as claimed): a fixable judgment whose action is not restart,
\* rollback or scale makes the fix stage call no executor operation, record
\* a failed attempt with the detail "unrecognized action" and add one to
\* current_attempt.
UnknownActionUnrecognized ==
    [][UnknownAction => UnknownActionRecorded(<<"unrecognized action">>)]_vars

\* C12 (amended): the same, with the detail "Unknown action".
UnknownActionFails ==
    [][UnknownAction => UnknownActionRecorded(<<"Unknown action">>)]_vars

\* C12 witness: an attempt with the action "escalate" has been recorded.
UnknownActionWitness ==
    /\ fix_attempts # <<>>
    /\ LastFixAttempt.action = "escalate"
    /\ LastFixAttempt.details = <<"Unknown action">>
    /\ ~LastFixAttempt.success
    /\ current_attempt = 2
    /\ executor_calls = <<>>

\* C13 (as claimed): when the executor operation of an attempt fails, the
\* fix stage records the attempt with success = false and the error text in
\* its detail, adds exactly one to current_attempt, and the run goes on to a
\* retry or to escalation.
ExecutorFailureRecorded ==
    [][pc = "fix" /\ Len(executor_calls') = Len(executor_calls) + 1
                  /\ ~executor_calls'[Len(executor_calls')].ok =>
        LET call == executor_calls'[Len(executor_calls')]
            f    == fix_attempts'[Len(fix_attempts')]
        IN  /\ Len(fix_attempts') = Len(fix_attempts) + 1
            /\ f.attempt_number = call.attempt
            /\ ~f.success
            /\ Contains(call.text, f.details)
            /\ current_attempt' = current_attempt + 1
            /\ pc' \in {"diagnostic", "escalate"}]_vars

EscalationStep == pc = "escalate" /\ pc' # "escalate"

\* C14 (as claimed): the escalation stage sets status to escalated and
\* resolution_summary to the summary text it compiled from the state.
EscalationStoresCompiledSummary ==
    [][EscalationStep =>
        /\ status' = ESCALATED
        /\ resolution_summary' = <<CompiledSummary>>]_vars

\* C14 (amended): the escalation stage sets status to escalated and
\* resolution_summary to the fixed text "Escalated to human operator"; the
\* summary text it compiled is the content of the one message it appends.
EscalationStoresFixedSummary ==
    [][EscalationStep =>
        /\ status' = ESCALATED
        /\ resolution_summary' = <<(<<"Escalated to human operator">>)>>
        /\ messages' = Append(messages, [role    |-> "escalation",
                                          content |-> CompiledSummary])]_vars

\* C14 witness: the escalation stage has run on a state with fix attempts.
EscalationStoresWitness ==
    /\ pc = "complete"
    /\ invocations["escalate"] = 1
    /\ status = ESCALATED
    /\ Len(fix_attempts) = 3
    /\ messages[Len(messages)].role = "escalation"

\* The messages of the diagnosis stage, in log order; the fourth token of
\* such a message is the fix action of the judgment it reports.
DiagnosticMessages == SelectSeq(messages, LAMBDA m : m.role = "diagnostic")

\* C15: attempt n dispatches the fix action of the judgment the n-th
\* diagnosis produced, and a diagnosis leaves exactly its own judgment in
\* the state.
LatestJudgmentDispatched ==
    /\ [](\A n \in 1..current_attempt :
            /\ n <= Len(DiagnosticMessages)
            /\ n <= Len(fix_attempts)
            /\ fix_attempts[n].action = DiagnosticMessages[n].content[4]
            /\ \A j \in 1..Len(executor_calls) :
                 executor_calls[j].attempt = n =>
                     executor_calls[j].op = DiagnosticMessages[n].content[4])
    /\ [][pc = "diagnostic" /\ pc' \in {"fix", "escalate"} =>
            /\ Len(diagnostic_result') = 1
            /\ diagnostic_result'[1].fix_action
                   = messages'[Len(messages')].content[4]]_vars

\* C15 witness: the second attempt has dispatched an action that differs
\* from the one of the first judgment.
LatestJudgmentWitness ==
    /\ current_attempt = 2
    /\ Len(executor_calls) = 2
    /\ fix_attempts[1].action = "restart"
    /\ fix_attempts[2].action = "rollback"
    /\ executor_calls[2].op = "rollback"

\* C16: the classification stage runs once, and no step clears or replaces
\* a triage_result that is set.
TriageSetOnce ==
    /\ [][triage_result # <<>> => triage_result' = triage_result]_vars
    /\ [](invocations["triage"] <= 1)
    /\ [](pc = "returned" => invocations["triage"] = 1 /\ triage_result # <<>>)

\* C16 witness: a run with two diagnosis retries has returned.
TriageSetOnceWitness ==
    /\ pc = "returned"
    /\ invocations["diagnostic"] = 3
    /\ invocations["escalate"] = 1
    /\ triage_result # <<>>

Stages == {"triage", "diagnostic", "fix", "escalate"}

IsPrefix(a, b) == Len(a) <= Len(b) /\ SubSeq(b, 1, Len(a)) = a

\* C17 (as claimed): the message log and the fix attempts only change by a
\* stage completion appending one entry at the end: a completed stage
\* appends exactly one message, a completed fix stage exactly one fix
\* attempt, and no other step changes either sequence.
AppendOnlyByStage ==
    [][/\ IsPrefix(messages, messages')
       /\ IsPrefix(fix_attempts, fix_attempts')
       /\ Len(messages') =
              (IF pc \in Stages /\ pc' \notin {pc, "raised"}
               THEN Len(messages) + 1 ELSE Len(messages))
       /\ Len(fix_attempts') =
              (IF pc = "fix" /\ pc' # "fix"
               THEN Len(fix_attempts) + 1 ELSE Len(fix_attempts))]_vars

\* C18 (as claimed): the i-th fix attempt has attempt_number i.
AttemptNumbersSequential ==
    \A i \in 1..Len(fix_attempts) : fix_attempts[i].attempt_number = i

\* Index of the first occurrence of sub in s (0 when there is none).
FirstPos(sub, s) ==
    IF Contains(sub, s)
    THEN 1 + CHOOSE i \in 0..(Len(s) - Len(sub)) :
                 /\ SubSeq(s, i + 1, i + Len(sub)) = sub
                 /\ \A j \in 0..(i - 1) : SubSeq(s, j + 1, j + Len(sub)) # sub
    ELSE 0

\* The summary line expected for the k-th fix attempt.
ExpectedLine(k) ==
    <<"  - Attempt ", ToString(k), ": ", fix_attempts[k].action, " - ",
      IF fix_attempts[k].success THEN "Success" ELSE "Failed">>

\* C19: every run of the escalation stage on the same issue, judgments and
\* fix attempts yields the same summary; the summary names the issue title,
\* the severity and type ("Unknown" for both without a triage judgment) and
\* the number of fix attempts, and has one line per fix attempt with its
\* number, action and outcome, in the order of the attempts.
SummaryDeterministic ==
    \A i \in 1..Len(messages) :
        messages[i].role = "escalation" =>
            LET c == messages[i].content
            IN  /\ \A j \in 1..Len(messages) :
                     messages[j].role = "escalation" => messages[j].content = c
                /\ Contains(<<" ESCALATION REQUIRED\n\nIssue: ", issue.title>>, c)
                /\ triage_result = <<>> =>
                     Contains(<<"\nSeverity: ", "Unknown",
                                "\nType: ", "Unknown">>, c)
                /\ triage_result # <<>> =>
                     Contains(<<"\nSeverity: ", triage_result[1].severity,
                                "\nType: ", triage_result[1].issue_type>>, c)
                /\ Contains(<<"\n\nFix Attempts: ",
                              ToString(Len(fix_attempts)), "\n">>, c)
                /\ \A k \in 1..Len(fix_attempts) :
                     /\ Contains(ExpectedLine(k), c)
                     /\ k > 1 => FirstPos(ExpectedLine(k - 1), c)
                                     < FirstPos(ExpectedLine(k), c)

\* C19 witness: the stage has run twice on a state without a triage
\* judgment and with three fix attempts of mixed outcome.
SummaryDeterministicWitness ==
    /\ pc = "complete"
    /\ invocations["escalate"] = 2
    /\ Len(messages) = 2
    /\ triage_result = <<>>
    /\ Len(fix_attempts) = 3
    /\ fix_attempts[2].success
    /\ ~fix_attempts[3].success

OutOfRange(call) ==
    call.op = "scale" /\ (call.replicas < 1 \/ call.replicas > 10)

\* C20: a scale request with a replica count outside [1,10] does not reach
\* the cluster, and the fix stage records it as a failed attempt with the
\* executor's explanation as detail, adding one to current_attempt.
OutOfRangeScaleRejected ==
    /\ [](\A j \in 1..Len(executor_calls) :
            OutOfRange(executor_calls[j]) =>
                LET n == executor_calls[j].attempt
                IN  /\ ~executor_calls[j].sent
                    /\ ~executor_calls[j].ok
                    /\ n <= current_attempt
                    /\ n <= Len(fix_attempts)
                    /\ fix_attempts[n].action = "scale"
                    /\ ~fix_attempts[n].success
                    /\ fix_attempts[n].details =
                           <<CROSS_MARK, " Replicas must be between 1 and 10">>)
    /\ [][pc = "fix" /\ Len(executor_calls') = Len(executor_calls) + 1
                     /\ OutOfRange(executor_calls'[Len(executor_calls')]) =>
            /\ current_attempt' = current_attempt + 1
            /\ Len(fix_attempts') = Len(fix_attempts) + 1
            /\ pc' \in {"diagnostic", "escalate"}]_vars

\* C20 witness: a request for 15 replicas has been recorded as attempt 1.
OutOfRangeScaleWitness ==
    /\ current_attempt = 1
    /\ Len(executor_calls) = 1
    /\ executor_calls[1].replicas = 15
    /\ pc = "diagnostic"

\* C23 (as claimed): a run that was cancelled in flight is escalated, with
\* a summary.
CancelledRunEscalated ==
    pc = "cancelled" =>
        /\ status = ESCALATED
        /\ resolution_summary # <<>>
        /\ resolution_summary[1] # <<>>

\* C24: the next_agent a stage writes is the node its edge selects.
NextAgentIsRoute ==
    [][(pc \in Stages /\ pc' \notin {pc, "raised"}) => (next_agent' = pc')]_vars

\* C24 witness: a failed fix on the last attempt of a bound other than the
\* default has written "escalate" and is routed there.
NextAgentIsRouteWitness ==
    /\ pc = "escalate"
    /\ next_agent = "escalate"
    /\ max_attempts = 2
    /\ current_attempt = 2
    /\ ~LastFixAttempt.success

\* C25 (as claimed): only the last fix attempt can have success = true, and
\* status is resolved exactly when there is a last fix attempt and it has
\* success = true.
OnlyLastAttemptSucceeds ==
    /\ \A i \in 1..(Len(fix_attempts) - 1) : ~fix_attempts[i].success
    /\ status = RESOLVED <=>
           (fix_attempts # <<>> /\ LastFixAttempt.success)
    /\ status = ESCALATED =>
           \A i \in 1..Len(fix_attempts) : ~fix_attempts[i].success

\* C21: an alert named Watchdog or InfoInhibitor never produces a run: no
\* state is created for it and no stage is entered, whatever its status and
\* severity.
SuppressedAlertNeverRuns ==
    (/\ alert.alertname # <<>>
     /\ alert.alertname[1] \in {"Watchdog", "InfoInhibitor"}) =>
        /\ issue = <<>>
        /\ status = NO_RUN
        /\ next_agent = NO_RUN
        /\ messages = <<>>
        /\ executor_calls = <<>>
        /\ \A n \in Nodes : invocations[n] = 0
        /\ pc \in {"receive_alert", "logged", "process_alert", "suppressed"}

\* C21 witness: process_alert has returned on a firing, critical
\* InfoInhibitor alert.
SuppressedAlertWitness ==
    /\ pc = "suppressed"
    /\ alert.alertname = <<"InfoInhibitor">>
    /\ alert.status = "firing"
    /\ alert.severity = <<"critical">>

\* Number of node invocations of a run.
StagesEntered(f) ==
    f["triage"] + f["diagnostic"] + f["fix"] + f["escalate"] + f["complete"]

\* C22: in every interleaving of two runs, a step is either a step of the
\* executing run as it would take it alone, entering at most one stage and
\* leaving the other run's state untouched, or a task switch that hands
\* each run its own state back unchanged.
RunsIndependent ==
    [][\/ /\ Next
          /\ other_run' = other_run
          /\ StagesEntered(invocations') <= StagesEntered(invocations) + 1
       \/ /\ run_state' = other_run
          /\ other_run' = run_state]_vars

\* C22 witness: both runs have returned after interleaving, one resolved and
\* the other escalated after three fix attempts of its own.
RunsIndependentWitness ==
    /\ pc = "returned"
    /\ status = RESOLVED
    /\ current_attempt = 1
    /\ other_run.pc = "returned"
    /\ other_run.status = ESCALATED
    /\ other_run.current_attempt = 3
    /\ Len(other_run.executor_calls) = 3

====
